---- MODULE Spec2Model ----
(***************************************************************************)
(* FlowTracker (src/trace_processor/importers/common/flow_tracker.cc):     *)
(* correlation of flow events (Begin / Step / End) into edges between      *)
(* slices, with deferred binding and legacy (v1) flow identities.          *)
(***************************************************************************)
EXTENDS Integers, Sequences, FiniteSets, TLC

(* ------------------------------ bounds --------------------------------- *)
\* Tracks are 1..NumTracks.
NumTracks == 2
\* Slice ids are 0..MaxSliceId (row indexes of the slice table).
MaxSliceId == 2
\* Flow ids the event stream supplies are 0..MaxFlowId.
MaxFlowId == 1
\* Number of FlowTracker calls the driver makes in one session.
MaxCalls == 3

Tracks == 1..NumTracks
Slices == 0..MaxSliceId
FlowIds == 0..MaxFlowId

\* base::Optional<SliceId> without a value.
NoSlice == -1
\* Ghost value for "this call has no such argument".
NoArg == NoSlice

\* A value-initialised SliceId, what unordered_map::operator[] inserts for a
\* key that is absent.
DefaultSliceId == 0

\* The legacy identities the event stream may carry.
SourceIds == {7, 8}
Cats == {"c1", "c2"}
Names == {"n1", "n2"}
V1FlowIds == [source_id : SourceIds, cat : Cats, name : Names]

\* The stats the tracker increments.
StatKeys == {"flow_no_enclosing_slice", "flow_duplicate_id",
             "flow_step_without_start", "flow_end_without_start"}

\* InternString("name") and InternString("cat") of the constructor.
name_key_id_ == "name"
cat_key_id_ == "cat"

\* The slices of a track: a slice sits on one track.
SlicesOn(track_id) == {s \in Slices : (s % NumTracks) + 1 = track_id}

\* What slice_tracker->GetTopmostSliceOnTrack(track_id) may answer.
GetTopmostSliceOnTrack(track_id) == SlicesOn(track_id) \cup {NoSlice}

VARIABLES
  flow_to_slice_map_,          \* FlowId -> SliceId (partial)
  pending_flow_ids_map_,       \* TrackId -> sequence of FlowId (partial)
  v1_flow_id_to_flow_id_map_,  \* V1FlowId -> FlowId (partial)
  flow_id_to_v1_flow_id_map_,  \* FlowId -> V1FlowId (partial)
  v1_id_counter_,              \* next synthetic flow id
  flow_table,                  \* storage: the rows of the flow table
  stats,                       \* storage: the four counters
  last,                        \* ghost: the most recent call and its outcome
  calls,                       \* ghost: number of FlowTracker calls made so far
  flow_hist                    \* ghost: per flow id, what happened to it last

vars == <<flow_to_slice_map_, pending_flow_ids_map_,
          v1_flow_id_to_flow_id_map_, flow_id_to_v1_flow_id_map_,
          v1_id_counter_, flow_table, stats, last, calls, flow_hist>>

(* --------------------------- container helpers ------------------------- *)
\* m[k] = v of std::unordered_map (inserts or overwrites).
MapPut(m, k, v) == [x \in (DOMAIN m) \cup {k} |-> IF x = k THEN v ELSE m[x]]

\* Mutant of MapErase: the map is cleared.
MapEraseAll(m, k) == [x \in {} |-> m[x]]

\* Mutant of MapErase: nothing is erased.
MapEraseKeeps(m, k) == m

\* m.erase(k)
MapErase(m, k) == [x \in (DOMAIN m) \ {k} |-> m[x]]

\* m.count(k) != 0
MapHas(m, k) == k \in DOMAIN m

EmptyMap == [x \in {} |-> 0]

\* The map after evaluating m[k] as an rvalue: an absent key is inserted with
\* a value-initialised SliceId.
MapIndex(m, k) == IF MapHas(m, k) THEN m ELSE MapPut(m, k, DefaultSliceId)

\* Mutant of IncrementStats: the counter is set to one, not incremented.
IncrementStatsSets(s, key) == [s EXCEPT ![key] = 1]

\* storage->IncrementStats(key)
IncrementStats(s, key) == [s EXCEPT ![key] = @ + 1]

(* ------------------------------ InsertFlow ----------------------------- *)
\* tables::FlowTable::Row row(slice_out_id, slice_in_id, kInvalidArgSetId)
Row(slice_out_id, slice_in_id) ==
  [slice_out |-> slice_out_id, slice_in |-> slice_in_id, args |-> <<>>]

\* inserter.AddArg(key, Variadic::String(value)) on the inserter bound to row id:
\* the arg waits in the args tracker until it is flushed.
AddArg(buf, id, key, value) ==
  Append(buf, [row |-> id, key |-> key, value |-> value])

\* The args of row id among the buffered ones, in the order they were added.
RECURSIVE ArgsOfRow(_, _)
ArgsOfRow(buf, id) ==
  IF buf = <<>> THEN <<>>
  ELSE (IF Head(buf).row = id
          THEN <<[key |-> Head(buf).key, value |-> Head(buf).value]>>
          ELSE <<>>) \o ArgsOfRow(Tail(buf), id)

\* args_tracker->Flush(): the buffered args reach the rows they are bound to.
Flush(table, buf) ==
  [i \in DOMAIN table |->
     [table[i] EXCEPT !.args = @ \o ArgsOfRow(buf, i)]]

\* Mutant of V1Args: the two values are attached under each other's key.
V1ArgsCrossed(id, v1) ==
  AddArg(AddArg(<<>>, id, name_key_id_, v1.cat), id, cat_key_id_, v1.name)

\* The args InsertFlow adds for the row it inserted.
V1Args(id, v1) ==
  AddArg(AddArg(<<>>, id, name_key_id_, v1.name), id, cat_key_id_, v1.cat)

\* Mutant of InsertFlow: the row is built with the two slices swapped.
InsertFlowSwapped(table, flow_id, slice_out_id, slice_in_id) ==
  LET inserted == Append(table, Row(slice_in_id, slice_out_id))
      id == Len(inserted)
  IN IF MapHas(flow_id_to_v1_flow_id_map_, flow_id)
       THEN Flush(inserted, V1Args(id, flow_id_to_v1_flow_id_map_[flow_id]))
       ELSE inserted

\* FlowTracker::InsertFlow: the flow table after the call.
InsertFlow(table, flow_id, slice_out_id, slice_in_id) ==
  LET inserted == Append(table, Row(slice_out_id, slice_in_id))
      id == Len(inserted)
  IN IF MapHas(flow_id_to_v1_flow_id_map_, flow_id)
       THEN Flush(inserted, V1Args(id, flow_id_to_v1_flow_id_map_[flow_id]))
       ELSE inserted

(* ------------------------------ ghost state ---------------------------- *)
\* Ghost value for "this call names no legacy identity".
NoV1 == [source_id |-> NoArg, cat |-> "", name |-> ""]

\* A call of the driver: its arguments, the slice tracker's answer (slice; for
\* ClosePendingEventsOnTrack the slice_id argument), its outcome and its
\* return value.
Call(op, track_id, flow_id, slice, res, ret) ==
  [op |-> op, track |-> track_id, flow |-> flow_id, slice |-> slice,
   bind |-> FALSE, close |-> FALSE, v1 |-> NoV1, res |-> res, ret |-> ret]

\* flow_hist[f].st is "never" before the first successful Begin(f), "begun"
\* right after a successful Begin(f) (slice is then the slice that Begin was
\* answered), "active" once any other call has named f since, and "closed"
\* after a successful closing End(f), until the next successful Begin(f).
Hist(st, slice) == [st |-> st, slice |-> slice]

Touch(h, flow_id) ==
  [h EXCEPT ![flow_id] = IF @.st = "begun" THEN Hist("active", NoArg) ELSE @]

RECURSIVE TouchAll(_, _)
TouchAll(h, flows) ==
  IF flows = <<>> THEN h ELSE TouchAll(Touch(h, Head(flows)), Tail(flows))

(* -------------------------------- Init --------------------------------- *)
Init ==
  /\ flow_to_slice_map_ = EmptyMap
  /\ pending_flow_ids_map_ = EmptyMap
  /\ v1_flow_id_to_flow_id_map_ = EmptyMap
  /\ flow_id_to_v1_flow_id_map_ = EmptyMap
  /\ v1_id_counter_ = 0
  /\ flow_table = <<>>
  /\ stats = [k \in StatKeys |-> 0]
  /\ last = Call("Init", NoArg, NoArg, NoArg, "ok", NoArg)
  /\ calls = 0
  /\ flow_hist = [f \in FlowIds |-> Hist("never", NoArg)]

(* ------------------------------- actions ------------------------------- *)
\* The driver makes one more call.
Called ==
  /\ calls < MaxCalls
  /\ calls' = calls + 1

\* Mutant of BeginOutcome: the duplicate check is missing.
BeginOutcomeNoDuplicateCheck(open_slice_id, flow_id) ==
  IF open_slice_id = NoSlice THEN "no_slice" ELSE "ok"

\* The early returns of Begin.
BeginOutcome(open_slice_id, flow_id) ==
  IF open_slice_id = NoSlice THEN "no_slice"
  ELSE IF MapHas(flow_to_slice_map_, flow_id) THEN "duplicate"
  ELSE "ok"

\* Mutant of StepOutcome: a flow that is not active is reported as a missing
\* slice.
StepOutcomeOneCheck(open_slice_id, flow_id) ==
  IF open_slice_id = NoSlice \/ ~MapHas(flow_to_slice_map_, flow_id)
    THEN "no_slice"
    ELSE "ok"

\* Mutant of StepOutcome: the flow is looked up before the slice.
StepOutcomeFlowFirst(open_slice_id, flow_id) ==
  IF ~MapHas(flow_to_slice_map_, flow_id) THEN "no_start"
  ELSE IF open_slice_id = NoSlice THEN "no_slice"
  ELSE "ok"

\* The early returns of Step.
StepOutcome(open_slice_id, flow_id) ==
  IF open_slice_id = NoSlice THEN "no_slice"
  ELSE IF ~MapHas(flow_to_slice_map_, flow_id) THEN "no_start"
  ELSE "ok"

\* Mutant of EndOutcome: the flow is looked up before the slice.
EndOutcomeFlowFirst(open_slice_id, flow_id, bind_enclosing_slice) ==
  IF ~bind_enclosing_slice THEN "queued"
  ELSE IF ~MapHas(flow_to_slice_map_, flow_id) THEN "no_start"
  ELSE IF open_slice_id = NoSlice THEN "no_slice"
  ELSE "ok"

\* The early returns of End.
EndOutcome(open_slice_id, flow_id, bind_enclosing_slice) ==
  IF ~bind_enclosing_slice THEN "queued"
  ELSE IF open_slice_id = NoSlice THEN "no_slice"
  ELSE IF ~MapHas(flow_to_slice_map_, flow_id) THEN "no_start"
  ELSE "ok"

\* FlowTracker::Begin, with open_slice_id the slice tracker's answer.
Begin(track_id, flow_id, open_slice_id) ==
  LET outcome == BeginOutcome(open_slice_id, flow_id) IN
  /\ Called
  /\ last' = Call("Begin", track_id, flow_id, open_slice_id, outcome, NoArg)
  /\ CASE outcome = "no_slice" ->
            /\ stats' = IncrementStats(stats, "flow_no_enclosing_slice")
            /\ flow_hist' = Touch(flow_hist, flow_id)
            /\ UNCHANGED flow_to_slice_map_
       [] outcome = "duplicate" ->
            /\ stats' = IncrementStats(stats, "flow_duplicate_id")
            /\ flow_hist' = Touch(flow_hist, flow_id)
            /\ UNCHANGED flow_to_slice_map_
       [] outcome = "ok" ->
            /\ flow_to_slice_map_' =
                 MapPut(flow_to_slice_map_, flow_id, open_slice_id)
            /\ flow_hist' =
                 [flow_hist EXCEPT ![flow_id] = Hist("begun", open_slice_id)]
            /\ UNCHANGED stats
  /\ UNCHANGED <<pending_flow_ids_map_, v1_flow_id_to_flow_id_map_,
                 flow_id_to_v1_flow_id_map_, v1_id_counter_, flow_table>>

\* FlowTracker::Step, with open_slice_id the slice tracker's answer.
Step(track_id, flow_id, open_slice_id) ==
  LET outcome == StepOutcome(open_slice_id, flow_id) IN
  /\ Called
  /\ last' = Call("Step", track_id, flow_id, open_slice_id, outcome, NoArg)
  /\ flow_hist' = Touch(flow_hist, flow_id)
  /\ CASE outcome = "no_slice" ->
            /\ stats' = IncrementStats(stats, "flow_no_enclosing_slice")
            /\ UNCHANGED <<flow_to_slice_map_, flow_table>>
       [] outcome = "no_start" ->
            /\ stats' = IncrementStats(stats, "flow_step_without_start")
            /\ UNCHANGED <<flow_to_slice_map_, flow_table>>
       [] outcome = "ok" ->
            LET slice_out_id == flow_to_slice_map_[flow_id] IN
            /\ flow_table' =
                 InsertFlow(flow_table, flow_id, slice_out_id, open_slice_id)
            /\ flow_to_slice_map_' =
                 MapPut(flow_to_slice_map_, flow_id, open_slice_id)
            /\ UNCHANGED stats
  /\ UNCHANGED <<pending_flow_ids_map_, v1_flow_id_to_flow_id_map_,
                 flow_id_to_v1_flow_id_map_, v1_id_counter_>>

\* Mutant of PushPending: the flow id replaces the track's list.
PushPendingReplaces(m, track_id, flow_id) == MapPut(m, track_id, <<flow_id>>)

\* pending_flow_ids_map_[track_id].push_back(flow_id)
PushPending(m, track_id, flow_id) ==
  MapPut(m, track_id,
         Append(IF MapHas(m, track_id) THEN m[track_id] ELSE <<>>, flow_id))

\* Mutant of EndMap: close_flow is ignored, the entry is never removed.
EndMapNeverCloses(map, flow_id, close_flow) == map

\* Mutant of EndMap: close_flow is ignored, the entry is always removed.
EndMapAlwaysCloses(map, flow_id, close_flow) == MapErase(map, flow_id)

\* The Open-Flow map after a successful binding End.
EndMap(map, flow_id, close_flow) ==
  IF close_flow THEN MapErase(map, flow_id) ELSE map

\* FlowTracker::End, with open_slice_id the slice tracker's answer (asked for
\* only when bind_enclosing_slice is set).
End(track_id, flow_id, bind_enclosing_slice, close_flow, open_slice_id) ==
  LET outcome == EndOutcome(open_slice_id, flow_id, bind_enclosing_slice) IN
  /\ Called
  /\ last' = [Call("End", track_id, flow_id,
                   IF bind_enclosing_slice THEN open_slice_id ELSE NoArg,
                   outcome, NoArg)
                EXCEPT !.bind = bind_enclosing_slice, !.close = close_flow]
  /\ CASE outcome = "queued" ->
            /\ pending_flow_ids_map_' =
                 PushPending(pending_flow_ids_map_, track_id, flow_id)
            /\ flow_hist' = Touch(flow_hist, flow_id)
            /\ UNCHANGED <<flow_to_slice_map_, flow_table, stats>>
       [] outcome = "no_slice" ->
            /\ stats' = IncrementStats(stats, "flow_no_enclosing_slice")
            /\ flow_hist' = Touch(flow_hist, flow_id)
            /\ UNCHANGED <<flow_to_slice_map_, flow_table, pending_flow_ids_map_>>
       [] outcome = "no_start" ->
            /\ stats' = IncrementStats(stats, "flow_end_without_start")
            /\ flow_hist' = Touch(flow_hist, flow_id)
            /\ UNCHANGED <<flow_to_slice_map_, flow_table, pending_flow_ids_map_>>
       [] outcome = "ok" ->
            LET slice_out_id == flow_to_slice_map_[flow_id] IN
            /\ flow_to_slice_map_' =
                 EndMap(flow_to_slice_map_, flow_id, close_flow)
            /\ flow_table' =
                 InsertFlow(flow_table, flow_id, slice_out_id, open_slice_id)
            /\ flow_hist' = (IF close_flow
                               THEN [flow_hist EXCEPT
                                       ![flow_id] = Hist("closed", NoArg)]
                               ELSE Touch(flow_hist, flow_id))
            /\ UNCHANGED <<pending_flow_ids_map_, stats>>
  /\ UNCHANGED <<v1_flow_id_to_flow_id_map_, flow_id_to_v1_flow_id_map_,
                 v1_id_counter_>>

\* FlowTracker::IsActive
IsActive(flow_id) ==
  /\ Called
  /\ last' = Call("IsActive", NoArg, flow_id, NoArg,
                  IF MapHas(flow_to_slice_map_, flow_id) THEN "true" ELSE "false",
                  NoArg)
  /\ flow_hist' = Touch(flow_hist, flow_id)
  /\ UNCHANGED <<flow_to_slice_map_, pending_flow_ids_map_,
                 v1_flow_id_to_flow_id_map_, flow_id_to_v1_flow_id_map_,
                 v1_id_counter_, flow_table, stats>>

\* Mutant of V1Find: the lookup never finds the identity.
V1FindNever(map, v1_flow_id) == FALSE

\* v1_flow_id_to_flow_id_map_.find(v1_flow_id) != end()
V1Find(map, v1_flow_id) == MapHas(map, v1_flow_id)

\* FlowTracker::GetFlowIdForV1Event
GetFlowIdForV1Event(source_id, cat, name) ==
  LET v1_flow_id == [source_id |-> source_id, cat |-> cat, name |-> name] IN
  /\ Called
  /\ IF V1Find(v1_flow_id_to_flow_id_map_, v1_flow_id)
       THEN /\ last' = [Call("GetFlowIdForV1Event", NoArg, NoArg, NoArg,
                             "found", v1_flow_id_to_flow_id_map_[v1_flow_id])
                          EXCEPT !.v1 = v1_flow_id]
            /\ UNCHANGED <<v1_flow_id_to_flow_id_map_,
                           flow_id_to_v1_flow_id_map_, v1_id_counter_>>
       ELSE LET new_id == v1_id_counter_ IN
            /\ v1_id_counter_' = v1_id_counter_ + 1
            /\ flow_id_to_v1_flow_id_map_' =
                 MapPut(flow_id_to_v1_flow_id_map_, new_id, v1_flow_id)
            /\ v1_flow_id_to_flow_id_map_' =
                 MapPut(v1_flow_id_to_flow_id_map_, v1_flow_id, new_id)
            /\ last' = [Call("GetFlowIdForV1Event", NoArg, NoArg, NoArg,
                             "new", new_id)
                          EXCEPT !.v1 = v1_flow_id]
  /\ UNCHANGED <<flow_to_slice_map_, pending_flow_ids_map_,
                 flow_table, stats, flow_hist>>

\* Mutant of ClosePendingLoop: the loop stops after the first pending flow
\* id.
ClosePendingLoopFirstOnly(flows, map, table, slice_id) ==
  IF flows = <<>> THEN [map |-> map, table |-> table]
  ELSE LET flow_id == Head(flows)
           indexed == MapIndex(map, flow_id)
       IN [map |-> indexed,
           table |-> InsertFlow(table, flow_id, indexed[flow_id], slice_id)]

\* Mutant of ClosePendingLoop: the pending flow ids are gone through from the
\* last to the first.
RECURSIVE ClosePendingLoopBackwards(_, _, _, _)
ClosePendingLoopBackwards(flows, map, table, slice_id) ==
  IF flows = <<>> THEN [map |-> map, table |-> table]
  ELSE LET flow_id == flows[Len(flows)]
           indexed == MapIndex(map, flow_id)
       IN ClosePendingLoopBackwards(
            SubSeq(flows, 1, Len(flows) - 1), indexed,
            InsertFlow(table, flow_id, indexed[flow_id], slice_id), slice_id)

\* The loop of ClosePendingEventsOnTrack over the pending flow ids: the
\* Open-Flow map and the flow table after it.
RECURSIVE ClosePendingLoop(_, _, _, _)
ClosePendingLoop(flows, map, table, slice_id) ==
  IF flows = <<>> THEN [map |-> map, table |-> table]
  ELSE LET flow_id == Head(flows)
           indexed == MapIndex(map, flow_id)
           slice_out_id == indexed[flow_id]
       IN ClosePendingLoop(Tail(flows), indexed,
                           InsertFlow(table, flow_id, slice_out_id, slice_id),
                           slice_id)

\* FlowTracker::ClosePendingEventsOnTrack
ClosePendingEventsOnTrack(track_id, slice_id) ==
  /\ Called
  /\ IF ~MapHas(pending_flow_ids_map_, track_id)
       THEN /\ last' = Call("ClosePendingEventsOnTrack", track_id, NoArg,
                            slice_id, "none", NoArg)
            /\ UNCHANGED <<flow_to_slice_map_, pending_flow_ids_map_,
                           flow_table, flow_hist>>
       ELSE LET flows == pending_flow_ids_map_[track_id]
                done == ClosePendingLoop(flows, flow_to_slice_map_, flow_table,
                                         slice_id)
            IN /\ flow_to_slice_map_' = done.map
               /\ flow_table' = done.table
               /\ pending_flow_ids_map_' =
                    MapErase(pending_flow_ids_map_, track_id)
               /\ last' = Call("ClosePendingEventsOnTrack", track_id, NoArg,
                               slice_id, "ok", NoArg)
               /\ flow_hist' = TouchAll(flow_hist, flows)
  /\ UNCHANGED <<v1_flow_id_to_flow_id_map_, flow_id_to_v1_flow_id_map_,
                 v1_id_counter_, stats>>

Next ==
  \/ \E t \in Tracks, f \in FlowIds :
       \E s \in GetTopmostSliceOnTrack(t) : Begin(t, f, s)
  \/ \E t \in Tracks, f \in FlowIds :
       \E s \in GetTopmostSliceOnTrack(t) : Step(t, f, s)
  \/ \E t \in Tracks, f \in FlowIds, b \in BOOLEAN, c \in BOOLEAN :
       \E s \in GetTopmostSliceOnTrack(t) : End(t, f, b, c, s)
  \/ \E f \in FlowIds : IsActive(f)
  \/ \E i \in SourceIds, c \in Cats, n \in Names : GetFlowIdForV1Event(i, c, n)
  \/ \E t \in Tracks : \E s \in SlicesOn(t) : ClosePendingEventsOnTrack(t, s)

Spec == Init /\ [][Next]_vars

(* ------------------------- a session under way ------------------------- *)
\* The tracker as Begin(2, 0), answered the open slice 1, leaves a new
\* tracker: flow 0 is active, recorded at slice 1.
AfterBegin ==
  /\ flow_to_slice_map_ = MapPut(EmptyMap, 0, 1)
  /\ flow_table = <<>>
  /\ last = Call("Begin", 2, 0, 1, "ok", NoArg)
  /\ flow_hist = [f \in FlowIds |-> IF f = 0 THEN Hist("begun", 1)
                                            ELSE Hist("never", NoArg)]

\* The tracker as that Begin followed by End(1, 0, bind_enclosing_slice =
\* TRUE, close_flow = TRUE), answered the open slice 0, leaves it: the edge
\* (1, 0) is in the table and flow 0 is closed.
AfterClosingEnd ==
  /\ flow_to_slice_map_ = EmptyMap
  /\ flow_table = <<Row(1, 0)>>
  /\ last = [Call("End", 1, 0, 0, "ok", NoArg)
               EXCEPT !.bind = TRUE, !.close = TRUE]
  /\ flow_hist = [f \in FlowIds |-> IF f = 0 THEN Hist("closed", NoArg)
                                            ELSE Hist("never", NoArg)]

\* What both of these states share with Init.
Untouched ==
  /\ pending_flow_ids_map_ = EmptyMap
  /\ v1_flow_id_to_flow_id_map_ = EmptyMap
  /\ flow_id_to_v1_flow_id_map_ = EmptyMap
  /\ v1_id_counter_ = 0
  /\ stats = [k \in StatKeys |-> 0]

\* A session that is under way: it starts where one call, respectively two,
\* have led the tracker, and `calls` counts the calls made from there on.
InitBegun ==
  /\ Untouched
  /\ AfterBegin
  /\ calls = 0

InitClosed ==
  /\ Untouched
  /\ AfterClosingEnd
  /\ calls = 0

SpecBegun == InitBegun /\ [][Next]_vars

SpecClosed == InitClosed /\ [][Next]_vars

(* ----------------- ClosePendingEventsOnTrack, line by line --------------- *)
\* No call is in progress. A ClosePendingEventsOnTrack in progress is
\* last.res = "emitting", with last.ret the number of pending flow ids its
\* loop has gone through.
Returned == last.res # "emitting"

\* ClosePendingEventsOnTrack up to its loop: the lookup of the track and the
\* early return.
ClosePendingFind(track_id, slice_id) ==
  /\ Returned
  /\ Called
  /\ last' = Call("ClosePendingEventsOnTrack", track_id, NoArg, slice_id,
                  IF MapHas(pending_flow_ids_map_, track_id)
                    THEN "emitting" ELSE "none",
                  IF MapHas(pending_flow_ids_map_, track_id) THEN 0 ELSE NoArg)
  /\ UNCHANGED <<flow_to_slice_map_, pending_flow_ids_map_,
                 v1_flow_id_to_flow_id_map_, flow_id_to_v1_flow_id_map_,
                 v1_id_counter_, flow_table, stats, flow_hist>>

\* One turn of the loop of ClosePendingEventsOnTrack.
ClosePendingEmit ==
  /\ last.res = "emitting"
  /\ last.ret < Len(pending_flow_ids_map_[last.track])
  /\ LET flow_id == pending_flow_ids_map_[last.track][last.ret + 1]
         indexed == MapIndex(flow_to_slice_map_, flow_id)
         slice_out_id == indexed[flow_id]
     IN /\ flow_to_slice_map_' = indexed
        /\ flow_table' =
             InsertFlow(flow_table, flow_id, slice_out_id, last.slice)
        /\ flow_hist' = Touch(flow_hist, flow_id)
  /\ last' = [last EXCEPT !.ret = @ + 1]
  /\ UNCHANGED <<pending_flow_ids_map_, v1_flow_id_to_flow_id_map_,
                 flow_id_to_v1_flow_id_map_, v1_id_counter_, stats, calls>>

\* The end of ClosePendingEventsOnTrack: pending_flow_ids_map_.erase(iter).
ClosePendingErase ==
  /\ last.res = "emitting"
  /\ last.ret = Len(pending_flow_ids_map_[last.track])
  /\ pending_flow_ids_map_' = MapErase(pending_flow_ids_map_, last.track)
  /\ last' = [last EXCEPT !.res = "ok", !.ret = NoArg]
  /\ UNCHANGED <<flow_to_slice_map_, v1_flow_id_to_flow_id_map_,
                 flow_id_to_v1_flow_id_map_, v1_id_counter_, flow_table,
                 stats, calls, flow_hist>>

\* The calls of Next, with ClosePendingEventsOnTrack taken line by line; the
\* tracker is single-threaded, a call starts when the one before has returned.
NextByLine ==
  \/ /\ Returned
     /\ \E t \in Tracks, f \in FlowIds :
          \E s \in GetTopmostSliceOnTrack(t) : Begin(t, f, s)
  \/ /\ Returned
     /\ \E t \in Tracks, f \in FlowIds :
          \E s \in GetTopmostSliceOnTrack(t) : Step(t, f, s)
  \/ /\ Returned
     /\ \E t \in Tracks, f \in FlowIds, b \in BOOLEAN, c \in BOOLEAN :
          \E s \in GetTopmostSliceOnTrack(t) : End(t, f, b, c, s)
  \/ /\ Returned
     /\ \E f \in FlowIds : IsActive(f)
  \/ /\ Returned
     /\ \E i \in SourceIds, c \in Cats, n \in Names :
          GetFlowIdForV1Event(i, c, n)
  \/ \E t \in Tracks : \E s \in SlicesOn(t) : ClosePendingFind(t, s)
  \/ ClosePendingEmit
  \/ ClosePendingErase

SpecByLine == Init /\ [][NextByLine]_vars

(* ------------------------- properties: helpers ------------------------- *)
\* The step is a call `op` of the driver; last' holds its arguments.
IsCall(op) == calls' = calls + 1 /\ last'.op = op

\* The edge a row of the flow table stands for.
Edge(row) == <<row.slice_out, row.slice_in>>

\* The table has grown by exactly the rows whose edges are `edges`, in that
\* order, and the rows it held are as they were.
Emitted(edges) ==
  /\ Len(flow_table') = Len(flow_table) + Len(edges)
  /\ SubSeq(flow_table', 1, Len(flow_table)) = flow_table
  /\ \A i \in 1..Len(edges) : Edge(flow_table'[Len(flow_table) + i]) = edges[i]

\* Exactly the counter `key` went up, by one.
Counted(key) == stats' = [stats EXCEPT ![key] = @ + 1]

(* --------------------------------- C1 ---------------------------------- *)
\* What C1 asks of one step.
C1_Step ==
  LET c == last' IN
  /\ (IsCall("Begin") /\ c.slice # NoSlice
        /\ ~MapHas(flow_to_slice_map_, c.flow))
       => /\ Emitted(<<>>)
          /\ flow_hist'[c.flow] = Hist("begun", c.slice)
  /\ (IsCall("End") /\ c.bind /\ c.close /\ c.slice # NoSlice
        /\ flow_hist[c.flow].st = "begun")
       => /\ Emitted(<<<<flow_hist[c.flow].slice, c.slice>>>>)
          /\ ~MapHas(flow_to_slice_map_', c.flow)

\* C1: a Begin(A, f) answered an open slice S1 while f is not active appends no
\* edge; and when the last call naming f was that Begin, End(B, f,
\* bind_enclosing_slice = TRUE, close_flow = TRUE) answered an open slice S2
\* appends exactly the one edge (S1, S2), and f is not active after it.
C1_BeginThenClosingEnd == [][C1_Step]_vars

\* Two calls were made, the second a closing End that bound the slice of a
\* track other than the one the flow began on.
C1_Witness ==
  /\ calls = 2
  /\ last.op = "End" /\ last.bind /\ last.close /\ last.res = "ok"
  /\ Len(flow_table) = 1
  /\ flow_table[1].slice_in = last.slice
  /\ flow_table[1].slice_out \notin SlicesOn(last.track)
  /\ ~MapHas(flow_to_slice_map_, last.flow)

(* --------------------------------- C2 ---------------------------------- *)
\* What C2 asks of one step.
C2_Step ==
  LET c == last' IN
  (IsCall("Step") /\ c.slice # NoSlice /\ MapHas(flow_to_slice_map_, c.flow))
    => /\ Emitted(<<<<flow_to_slice_map_[c.flow], c.slice>>>>)
       /\ flow_to_slice_map_' = MapPut(flow_to_slice_map_, c.flow, c.slice)
       /\ flow_hist[c.flow].st = "begun"
            => Emitted(<<<<flow_hist[c.flow].slice, c.slice>>>>)
       /\ (last.op = "Step" /\ last.res = "ok" /\ last.flow = c.flow)
            => Emitted(<<<<last.slice, c.slice>>>>)

\* C2: a Step(track, f) answered an open slice while f is active appends
\* exactly the edge (slice recorded for f before the call, slice open on
\* track) and then records that open slice for f; so a Step right after the
\* successful Begin of f answered S1 appends (S1, S2), and a Step right after a
\* successful Step of f answered S2 appends (S2, S3).
C2_StepChainsEdges == [][C2_Step]_vars

\* Begin and two Steps of one flow over three different slices: the table
\* holds (S1, S2) and then (S2, S3).
C2_Witness ==
  /\ calls = 3
  /\ last.op = "Step" /\ last.res = "ok"
  /\ Len(flow_table) = 2
  /\ flow_table[1].slice_in = flow_table[2].slice_out
  /\ flow_table[2].slice_in = last.slice
  /\ Cardinality({flow_table[1].slice_out, flow_table[1].slice_in,
                  flow_table[2].slice_in}) = 3
  /\ flow_to_slice_map_[last.flow] = last.slice

(* --------------------------------- C3 ---------------------------------- *)
\* What C3 asks of one step.
C3_Step ==
  LET c == last' IN
  (IsCall("Begin") /\ c.slice # NoSlice /\ MapHas(flow_to_slice_map_, c.flow))
    => /\ Counted("flow_duplicate_id")
       /\ Emitted(<<>>)
       /\ flow_to_slice_map_' = flow_to_slice_map_

\* C3: Begin(track, f) answered an open slice while f is active increments
\* flow_duplicate_id by one, appends no edge and leaves the Open-Flow table,
\* so f's entry, as it was.
C3_DuplicateBeginDiscarded == [][C3_Step]_vars

\* A second Begin of an active flow was answered another slice and rejected:
\* the entry still holds the first slice.
C3_Witness ==
  /\ last.op = "Begin" /\ last.res = "duplicate"
  /\ stats["flow_duplicate_id"] = 1
  /\ MapHas(flow_to_slice_map_, last.flow)
  /\ flow_to_slice_map_[last.flow] # last.slice
  /\ flow_table = <<>>

(* --------------------------------- C4 ---------------------------------- *)
\* What C4 as stated asks of one step.
C4_StepAsStated ==
  LET c == last' IN
  (IsCall("Step") /\ flow_hist[c.flow].st = "never")
    => /\ Counted("flow_step_without_start")
       /\ Emitted(<<>>)
       /\ ~MapHas(flow_to_slice_map_', c.flow)

\* C4 as stated: Step(track, f), for any track and any f no Begin has ever
\* succeeded for, increments flow_step_without_start, appends no edge and
\* creates no Open-Flow entry for f.
C4_Original == [][C4_StepAsStated]_vars

\* What C4 amended asks of one step.
C4_Step ==
  LET c == last' IN
  (IsCall("Step") /\ c.slice # NoSlice /\ ~MapHas(flow_to_slice_map_, c.flow))
    => /\ Counted("flow_step_without_start")
       /\ Emitted(<<>>)
       /\ flow_to_slice_map_' = flow_to_slice_map_

\* C4 amended: Step(track, f) answered an open slice, for f that has no
\* Open-Flow entry, increments flow_step_without_start, appends no edge and
\* leaves the Open-Flow table as it was.
C4_StepWithoutStart == [][C4_Step]_vars

\* A Step of a flow that never began was answered an open slice and rejected.
C4_Witness ==
  /\ last.op = "Step" /\ last.res = "no_start" /\ last.slice # NoSlice
  /\ flow_hist[last.flow].st = "never"
  /\ stats["flow_step_without_start"] = 1
  /\ flow_table = <<>>
  /\ ~MapHas(flow_to_slice_map_, last.flow)

(* --------------------------------- C5 ---------------------------------- *)
\* What C5 asks of one step.
C5_Step ==
  LET c == last' IN
  ((IsCall("Begin") \/ IsCall("Step") \/ (IsCall("End") /\ c.bind))
     /\ c.slice = NoSlice)
    => /\ Counted("flow_no_enclosing_slice")
       /\ Emitted(<<>>)
       /\ UNCHANGED <<flow_to_slice_map_, pending_flow_ids_map_,
                      v1_flow_id_to_flow_id_map_, flow_id_to_v1_flow_id_map_,
                      v1_id_counter_>>

\* C5: Begin, Step, or End with bind_enclosing_slice = TRUE, answered that no
\* slice is open on the track, increments flow_no_enclosing_slice by one,
\* appends no edge and leaves the Open-Flow table, the Pending-On-Track table
\* and the legacy mapping as they were, whether the flow id is active or not.
C5_NoEnclosingSlice == [][C5_Step]_vars

\* The same binding End of an active flow failed twice for want of a slice:
\* the counter is 2 and the flow still holds the slice it began on.
C5_Witness ==
  /\ calls = 3
  /\ last.op = "End" /\ last.bind /\ last.res = "no_slice"
  /\ stats["flow_no_enclosing_slice"] = 2
  /\ MapHas(flow_to_slice_map_, last.flow)
  /\ flow_hist[last.flow].st = "active"
  /\ flow_table = <<>>

(* --------------------------------- C6 ---------------------------------- *)
\* What C6 asks of one step.
C6_Step ==
  LET c == last' IN
  /\ \A t \in Tracks :
       (~MapHas(pending_flow_ids_map_, t) /\ MapHas(pending_flow_ids_map_', t))
         => IsCall("End") /\ ~c.bind /\ c.track = t
  /\ IsCall("ClosePendingEventsOnTrack")
       => /\ ~MapHas(pending_flow_ids_map_', c.track)
          /\ (MapHas(pending_flow_ids_map_, c.track)
                /\ Len(pending_flow_ids_map_[c.track]) = 1)
               => /\ Len(flow_table') = Len(flow_table) + 1
                  /\ SubSeq(flow_table', 1, Len(flow_table)) = flow_table
                  /\ flow_table'[Len(flow_table')].slice_in = c.slice
          /\ ~MapHas(pending_flow_ids_map_, c.track) => Emitted(<<>>)
          /\ (last.op = "ClosePendingEventsOnTrack" /\ last.track = c.track)
               => Emitted(<<>>)

\* C6: ClosePendingEventsOnTrack(track, S) on a track whose pending list holds
\* one entry appends exactly one edge, with slice_in = S, and empties the
\* list; a track's list is filled only by End with bind_enclosing_slice =
\* FALSE on that track; and ClosePendingEventsOnTrack on a track with no
\* pending entry (so a second one right after the first) appends no edge.
C6_DeferredEnd == [][C6_Step]_vars

\* A deferred End, then two ClosePendingEventsOnTrack on its track: the table
\* holds the one edge of the first.
C6_Witness ==
  /\ calls = 3
  /\ last.op = "ClosePendingEventsOnTrack" /\ last.res = "none"
  /\ Len(flow_table) = 1
  /\ flow_table[1].slice_in \in SlicesOn(last.track)
  /\ pending_flow_ids_map_ = EmptyMap

(* --------------------------------- C7 ---------------------------------- *)
\* The two legacy maps are inverse bijections between the identities seen and
\* the synthetic ids handed out, which are 0 .. v1_id_counter_ - 1.
C7_Bijection ==
  /\ DOMAIN flow_id_to_v1_flow_id_map_ = 0..(v1_id_counter_ - 1)
  /\ {v1_flow_id_to_flow_id_map_[v] : v \in DOMAIN v1_flow_id_to_flow_id_map_}
       = DOMAIN flow_id_to_v1_flow_id_map_
  /\ \A v \in DOMAIN v1_flow_id_to_flow_id_map_ :
       flow_id_to_v1_flow_id_map_[v1_flow_id_to_flow_id_map_[v]] = v
  /\ \A v, w \in DOMAIN v1_flow_id_to_flow_id_map_ :
       v # w => v1_flow_id_to_flow_id_map_[v] # v1_flow_id_to_flow_id_map_[w]

\* No pair of the legacy maps is changed or removed; only GetFlowIdForV1Event
\* adds one, for the identity it is asked about and only if that identity is
\* new; and it returns the id the identity is mapped to, before and after.
C7_Step ==
  LET c == last' IN
  /\ \A v \in DOMAIN v1_flow_id_to_flow_id_map_ :
       /\ v \in DOMAIN v1_flow_id_to_flow_id_map_'
       /\ v1_flow_id_to_flow_id_map_'[v] = v1_flow_id_to_flow_id_map_[v]
  /\ \A id \in DOMAIN flow_id_to_v1_flow_id_map_ :
       /\ id \in DOMAIN flow_id_to_v1_flow_id_map_'
       /\ flow_id_to_v1_flow_id_map_'[id] = flow_id_to_v1_flow_id_map_[id]
  /\ IF IsCall("GetFlowIdForV1Event")
       THEN /\ c.v1 \in V1FlowIds
            /\ DOMAIN v1_flow_id_to_flow_id_map_'
                 = DOMAIN v1_flow_id_to_flow_id_map_ \cup {c.v1}
            /\ c.ret = v1_flow_id_to_flow_id_map_'[c.v1]
            /\ c.v1 \in DOMAIN v1_flow_id_to_flow_id_map_
                 => c.ret = v1_flow_id_to_flow_id_map_[c.v1]
       ELSE UNCHANGED <<v1_flow_id_to_flow_id_map_,
                        flow_id_to_v1_flow_id_map_, v1_id_counter_>>

\* C7: in every reachable state the legacy mapping is a bijection between the
\* identities seen and the synthetic ids handed out, and it is append-only:
\* GetFlowIdForV1Event returns the same id for the same identity on every
\* call, whatever calls come in between, distinct ids for distinct identities,
\* and no pair is ever changed or removed.
C7_LegacyMappingBijective == []C7_Bijection /\ [][C7_Step]_vars

\* Identity A, then identity B, then A again: the third call finds A's id 0
\* while B holds id 1.
C7_Witness ==
  /\ calls = 3
  /\ last.op = "GetFlowIdForV1Event" /\ last.res = "found" /\ last.ret = 0
  /\ v1_id_counter_ = 2
  /\ flow_id_to_v1_flow_id_map_[0] = last.v1
  /\ flow_id_to_v1_flow_id_map_[1] # last.v1

(* --------------------------------- C8 ---------------------------------- *)
\* The flow ids the step's call emits an edge for, in the order of emission.
EmittingFlows ==
  LET c == last' IN
  IF IsCall("ClosePendingEventsOnTrack")
    THEN (IF MapHas(pending_flow_ids_map_, c.track)
            THEN pending_flow_ids_map_[c.track] ELSE <<>>)
  ELSE IF (IsCall("Step") \/ (IsCall("End") /\ c.bind))
            /\ c.slice # NoSlice /\ MapHas(flow_to_slice_map_, c.flow)
    THEN <<c.flow>>
  ELSE <<>>

\* C8 as stated, for the rows of the table: a row carries no attribute, or
\* exactly two, keyed `category` and `name`.
C8_Original ==
  \A i \in DOMAIN flow_table :
    LET a == flow_table[i].args IN
    \/ a = <<>>
    \/ Len(a) = 2 /\ {a[1].key, a[2].key} = {"category", "name"}

\* What C8 amended asks of one step.
C8_Step ==
  LET flows == EmittingFlows IN
  /\ Len(flow_table') = Len(flow_table) + Len(flows)
  /\ SubSeq(flow_table', 1, Len(flow_table)) = flow_table
  /\ \A i \in 1..Len(flows) :
       LET a == flow_table'[Len(flow_table) + i].args
           f == flows[i]
       IN IF MapHas(flow_id_to_v1_flow_id_map_, f)
            THEN /\ Len(a) = 2
                 /\ {a[1], a[2]} =
                      {[key |-> "name",
                        value |-> flow_id_to_v1_flow_id_map_[f].name],
                       [key |-> "cat",
                        value |-> flow_id_to_v1_flow_id_map_[f].cat]}
            ELSE a = <<>>

\* C8 amended: every edge emitted (by Step, binding End, or pending
\* resolution) for a flow id that has a legacy identity carries exactly two
\* attributes, keyed `cat` and `name`, whose values are that identity's
\* category and name, flushed to the row with the call and never attached
\* again; every edge emitted for a flow id without a legacy identity carries
\* no attribute.
C8_LegacyEdgeAttributes == [][C8_Step]_vars

\* A Step or binding End of a flow id with a legacy identity has just emitted
\* an edge, which carries attributes.
C8_Witness ==
  /\ last.op \in {"Step", "End"} /\ last.res = "ok"
  /\ MapHas(flow_id_to_v1_flow_id_map_, last.flow)
  /\ Len(flow_table) = 1
  /\ Len(flow_table[1].args) = 2

(* --------------------------------- C9 ---------------------------------- *)
\* C9: in every reachable state a flow id is in the Open-Flow table iff a
\* Begin of it has succeeded and no closing End of it has succeeded since the
\* latest successful Begin.
C9_ActiveIffBegun ==
  \A f \in FlowIds :
    MapHas(flow_to_slice_map_, f) <=> flow_hist[f].st \in {"begun", "active"}

(* --------------------------------- C10 --------------------------------- *)
\* What C10 asks of one step.
C10_Step ==
  LET flows == EmittingFlows IN
  \A i \in 1..Len(flows) :
    /\ flow_hist[flows[i]].st \in {"begun", "active"}
    /\ MapHas(flow_to_slice_map_, flows[i])
    /\ Len(flow_table') >= Len(flow_table) + i
    /\ flow_table'[Len(flow_table) + i].slice_out
         = flow_to_slice_map_[flows[i]]

\* C10: every edge a call emits for a flow id has as slice_out the slice the
\* Open-Flow table recorded for that flow id when the call was made, a slice
\* stored by an earlier successful Begin or Step of that flow id.
C10_SliceOutWasRecorded == [][C10_Step]_vars

(* --------------------------------- C11 --------------------------------- *)
\* The flow ids the event stream has used so far and that the tracker still
\* holds: those with an Open-Flow entry and those queued on a track.
HeldFlowIds ==
  DOMAIN flow_to_slice_map_
    \cup UNION {{pending_flow_ids_map_[t][i] :
                   i \in 1..Len(pending_flow_ids_map_[t])} :
                t \in DOMAIN pending_flow_ids_map_}

\* What C11 asks of one step.
C11_Step ==
  LET c == last' IN
  (IsCall("GetFlowIdForV1Event") /\ c.res = "new")
    => c.ret \notin HeldFlowIds

\* C11: a synthetic flow id that GetFlowIdForV1Event hands out is never a flow
\* id the event stream already supplied to Begin, Step or End and the tracker
\* holds (in the Open-Flow table or queued on a track), so a flow of an
\* explicit id never comes to share its entry, or its edges' attributes, with
\* a legacy identity.
C11_SyntheticIdIsFresh == [][C11_Step]_vars

(* --------------------------------- C12 --------------------------------- *)
\* What C12 asks of one step.
C12_Step ==
  LET c == last' IN
  /\ (IsCall("Step") /\ c.slice # NoSlice
        /\ flow_hist[c.flow].st = "closed")
       => /\ Counted("flow_step_without_start")
          /\ Emitted(<<>>)
  /\ (IsCall("End") /\ c.bind /\ c.slice # NoSlice
        /\ flow_hist[c.flow].st = "closed")
       => /\ Counted("flow_end_without_start")
          /\ Emitted(<<>>)

\* C12: from a successful closing End of f until the next successful Begin of
\* f, whatever other calls come in between (deferred Ends and
\* ClosePendingEventsOnTrack among them), every Step of f and every binding
\* End of f on a track with an open slice appends no edge and increments
\* flow_step_without_start, respectively flow_end_without_start.
C12_ClosedFlowStaysClosed == [][C12_Step]_vars

(* --------------------------------- C13 --------------------------------- *)
\* The number of rows the step adds to the flow table.
Grown == Len(flow_table') - Len(flow_table)

\* What C13 asks of one step.
C13_Step ==
  LET c == last'
      succeeds == c.slice # NoSlice /\ MapHas(flow_to_slice_map_, c.flow)
  IN
  /\ Grown >= 0
  /\ SubSeq(flow_table', 1, Len(flow_table)) = flow_table
  /\ IsCall("Step") => Grown = (IF succeeds THEN 1 ELSE 0)
  /\ IsCall("End") => Grown = (IF c.bind /\ succeeds THEN 1 ELSE 0)
  /\ IsCall("ClosePendingEventsOnTrack")
       => Grown = (IF MapHas(pending_flow_ids_map_, c.track)
                     THEN Len(pending_flow_ids_map_[c.track]) ELSE 0)
  /\ (IsCall("Begin") \/ IsCall("IsActive") \/ IsCall("GetFlowIdForV1Event"))
       => Grown = 0

\* C13: the flow table is append-only: after every call the table before the
\* call is a prefix of the table after it, and the table grows by exactly one
\* row for a successful Step, one for a successful binding End, the number of
\* queued entries for ClosePendingEventsOnTrack, and none for Begin, End with
\* bind_enclosing_slice = FALSE, IsActive, GetFlowIdForV1Event and every
\* rejected call.
C13_EdgeLogAppendOnly == [][C13_Step]_vars

\* Two deferred Ends on one track, then ClosePendingEventsOnTrack on it: the
\* table holds two rows, both written by that call.
C13_Witness ==
  /\ calls = 3
  /\ last.op = "ClosePendingEventsOnTrack" /\ last.res = "ok"
  /\ Len(flow_table) = 2
  /\ \A i \in 1..2 : flow_table[i].slice_in = last.slice

(* --------------------------------- C14 --------------------------------- *)
\* The counter a call about to be made must increment, or "" when the call
\* is accepted: the rejections are no enclosing slice, duplicate Begin, Step
\* without start and binding End without start.
Rejection ==
  LET c == last'
      active == MapHas(flow_to_slice_map_, c.flow)
  IN IF IsCall("Begin")
       THEN (IF c.slice = NoSlice THEN "flow_no_enclosing_slice"
             ELSE IF active THEN "flow_duplicate_id" ELSE "")
     ELSE IF IsCall("Step")
       THEN (IF c.slice = NoSlice THEN "flow_no_enclosing_slice"
             ELSE IF ~active THEN "flow_step_without_start" ELSE "")
     ELSE IF IsCall("End") /\ c.bind
       THEN (IF c.slice = NoSlice THEN "flow_no_enclosing_slice"
             ELSE IF ~active THEN "flow_end_without_start" ELSE "")
     ELSE ""

\* What C14 asks of one step.
C14_Step ==
  /\ Rejection # ""
       => /\ Counted(Rejection)
          /\ flow_table' = flow_table
          /\ UNCHANGED <<flow_to_slice_map_, pending_flow_ids_map_,
                         v1_flow_id_to_flow_id_map_,
                         flow_id_to_v1_flow_id_map_, v1_id_counter_>>
  /\ Rejection = "" => stats' = stats
  /\ \A k \in StatKeys : stats'[k] >= stats[k]

\* C14: every rejected call (no enclosing slice, duplicate Begin, Step without
\* start, binding End without start) increments exactly one of the four
\* counters, by exactly one, appends no edge and leaves the Open-Flow map, the
\* pending map and the legacy maps as they were; every accepted call leaves
\* the four counters as they were; no counter ever decreases.
C14_RejectedCallsOnlyCount == [][C14_Step]_vars

\* Three calls, the last two rejected on the same ground while a flow is
\* active: one counter stands at two and the entry of the first call is still
\* there.
C14_Witness ==
  /\ calls = 3
  /\ last.res \in {"no_slice", "duplicate", "no_start"}
  /\ \E k \in StatKeys : stats[k] = 2
  /\ flow_to_slice_map_ # EmptyMap
  /\ flow_table = <<>>

(* --------------------------------- C15 --------------------------------- *)
\* The step is a successful End(track, f, bind_enclosing_slice = TRUE,
\* close_flow = FALSE).
NonClosingEnd ==
  LET c == last' IN
  /\ IsCall("End") /\ c.bind /\ ~c.close
  /\ c.slice # NoSlice /\ MapHas(flow_to_slice_map_, c.flow)

\* The step is a successful Step or binding End of the flow that the call
\* before it was a successful non-closing binding End of.
AfterNonClosingEnd ==
  LET c == last' IN
  /\ last.op = "End" /\ last.bind /\ ~last.close /\ last.res = "ok"
  /\ IsCall("Step") \/ (IsCall("End") /\ c.bind)
  /\ c.flow = last.flow /\ c.res = "ok"

\* What C15 as stated asks of one step.
C15_StepAsStated ==
  LET c == last' IN
  /\ NonClosingEnd
       => /\ MapHas(flow_to_slice_map_', c.flow)
          /\ flow_to_slice_map_'[c.flow] = c.slice
  /\ AfterNonClosingEnd => Emitted(<<<<last.slice, c.slice>>>>)

\* C15 as stated: a successful End(track, f, bind_enclosing_slice = TRUE,
\* close_flow = FALSE) keeps f active and records the slice open on track as
\* f's Open-Flow entry, so that the next Step or End of f appends an edge whose
\* slice_out is that slice.
C15_Original == [][C15_StepAsStated]_vars

\* What C15 amended asks of one step.
C15_Step ==
  LET c == last' IN
  /\ NonClosingEnd
       => /\ Emitted(<<<<flow_to_slice_map_[c.flow], c.slice>>>>)
          /\ flow_to_slice_map_' = flow_to_slice_map_
  /\ AfterNonClosingEnd
       => /\ Emitted(<<<<flow_to_slice_map_[c.flow], c.slice>>>>)
          /\ Len(flow_table) > 0
          /\ flow_table'[Len(flow_table')].slice_out =
               flow_table[Len(flow_table)].slice_out

\* C15 amended: a successful End(track, f, bind_enclosing_slice = TRUE,
\* close_flow = FALSE) appends the edge (slice recorded for f, slice open on
\* track), keeps f active and leaves f's Open-Flow entry as it was, so that
\* the next Step or End of f appends an edge whose slice_out is the same
\* slice_out again, not the slice that End bound.
C15_NonClosingEndKeepsEntry == [][C15_Step]_vars

\* Begin answered S1, a non-closing binding End answered S2 and a Step answered
\* S3, all of one flow, S2 other than S1: the table holds (S1, S2) and (S1, S3).
C15_Witness ==
  /\ calls = 3
  /\ last.op = "Step" /\ last.res = "ok"
  /\ Len(flow_table) = 2
  /\ flow_table[1].slice_out = flow_table[2].slice_out
  /\ flow_table[1].slice_in # flow_table[1].slice_out
  /\ flow_table[2].slice_in = last.slice
  /\ flow_hist[last.flow].st = "active"
  /\ stats = [k \in StatKeys |-> 0]

(* --------------------------------- C16 --------------------------------- *)
\* The pending list of a track, empty when the map has none for it.
PendingOn(m, track_id) == IF MapHas(m, track_id) THEN m[track_id] ELSE <<>>

\* What C16 asks of one step.
C16_Step ==
  LET c == last' IN
  (IsCall("End") /\ ~c.bind)
    => /\ PendingOn(pending_flow_ids_map_', c.track) =
            Append(PendingOn(pending_flow_ids_map_, c.track), c.flow)
       /\ \A t \in Tracks \ {c.track} :
            /\ MapHas(pending_flow_ids_map_', t)
                 <=> MapHas(pending_flow_ids_map_, t)
            /\ PendingOn(pending_flow_ids_map_', t) =
                 PendingOn(pending_flow_ids_map_, t)
       /\ flow_table' = flow_table
       /\ stats' = stats
       /\ UNCHANGED <<flow_to_slice_map_, v1_flow_id_to_flow_id_map_,
                      flow_id_to_v1_flow_id_map_, v1_id_counter_>>

\* C16: End(track, f, bind_enclosing_slice = FALSE, close_flow = any) only
\* appends f to the end of track's pending list: whether or not f is active
\* and whatever close_flow is, it appends no edge, increments no counter, and
\* leaves the Open-Flow map, the legacy maps and every other track's pending
\* list as they were. (No slice is asked for: the call does the same whether
\* or not one is open.)
C16_DeferredEndOnlyQueues == [][C16_Step]_vars

\* A deferred End with close_flow set, of an active flow, on a track whose
\* list already held an entry: the list holds two, the flow is still active.
C16_Witness ==
  /\ calls = 3
  /\ last.op = "End" /\ ~last.bind /\ last.close /\ last.res = "queued"
  /\ MapHas(flow_to_slice_map_, last.flow)
  /\ MapHas(pending_flow_ids_map_, last.track)
  /\ Len(pending_flow_ids_map_[last.track]) = 2
  /\ pending_flow_ids_map_[last.track][2] = last.flow
  /\ flow_table = <<>>

(* --------------------------------- C17 --------------------------------- *)
\* Row `row` is an edge of flow f into slice_in: its slice_out is the slice
\* recorded for f when f is active, and its attributes are those of f's legacy
\* identity when f has one.
EdgeOfFlow(row, f, slice_in) ==
  /\ row.slice_in = slice_in
  /\ MapHas(flow_to_slice_map_, f) => row.slice_out = flow_to_slice_map_[f]
  /\ row.args # <<>> <=> MapHas(flow_id_to_v1_flow_id_map_, f)
  /\ \A j \in 1..Len(row.args) :
       row.args[j].value \in {flow_id_to_v1_flow_id_map_[f].name,
                              flow_id_to_v1_flow_id_map_[f].cat}

\* What C17 asks of one step.
C17_Step ==
  LET c == last' IN
  /\ (IsCall("ClosePendingEventsOnTrack")
        /\ MapHas(pending_flow_ids_map_, c.track))
       => LET flows == pending_flow_ids_map_[c.track] IN
          /\ Len(flow_table') = Len(flow_table) + Len(flows)
          /\ SubSeq(flow_table', 1, Len(flow_table)) = flow_table
          /\ \A i \in 1..Len(flows) :
               EdgeOfFlow(flow_table'[Len(flow_table) + i], flows[i], c.slice)
          /\ ~MapHas(pending_flow_ids_map_', c.track)
  /\ (IsCall("ClosePendingEventsOnTrack")
        /\ ~MapHas(pending_flow_ids_map_, c.track))
       => flow_table' = flow_table

\* C17: ClosePendingEventsOnTrack(track, S) appends one edge for every queued
\* occurrence of a flow id (a flow id queued k times yields k edges), in the
\* order the deferred End calls queued them, each with slice_in = S, and
\* track has no pending list after it, so that a later
\* ClosePendingEventsOnTrack(track, ...) appends nothing for those entries.
C17_PendingConsumedOnceInOrder == [][C17_Step]_vars

\* Flow 0 is active at slice 1; a deferred End of flow 1 and then one of flow 0
\* were queued on one track and resolved: the second edge, not the first,
\* leaves slice 1, and the track's list is gone.
C17_Witness ==
  /\ calls = 3
  /\ last.op = "ClosePendingEventsOnTrack" /\ last.res = "ok"
  /\ Len(flow_table) = 2
  /\ flow_table[1].slice_out # flow_to_slice_map_[0]
  /\ flow_table[2].slice_out = flow_to_slice_map_[0]
  /\ \A i \in 1..2 : flow_table[i].slice_in = last.slice
  /\ ~MapHas(pending_flow_ids_map_, last.track)

(* --------------------------------- C18 --------------------------------- *)
\* The step is one in which a ClosePendingEventsOnTrack in progress appends
\* an edge.
EmissionStep ==
  /\ last.res = "emitting"
  /\ Len(flow_table') > Len(flow_table)

\* What C18 as stated asks of one step.
C18_StepAsStated ==
  EmissionStep => ~MapHas(pending_flow_ids_map_, last.track)

\* C18 as stated: within one ClosePendingEventsOnTrack(track, S) call, track's
\* pending list is already gone from the pending map before the first edge of
\* the call is appended: at no step of the call that appends an edge is a
\* partially drained or a still populated pending list to be seen.
C18_Original == [][C18_StepAsStated]_vars

\* What C18 amended asks of one step.
C18_Step ==
  /\ EmissionStep
       => /\ MapHas(pending_flow_ids_map_, last.track)
          /\ pending_flow_ids_map_' = pending_flow_ids_map_
          /\ Len(flow_table') = Len(flow_table) + 1
          /\ last'.res = "emitting"
  /\ last.res = "emitting"
       => \/ EmissionStep
          \/ /\ last'.res = "ok"
             /\ last.ret = Len(pending_flow_ids_map_[last.track])
             /\ ~MapHas(pending_flow_ids_map_', last.track)
             /\ flow_table' = flow_table

\* C18 amended: within one ClosePendingEventsOnTrack(track, S) call, track's
\* pending list stays in the pending map, whole, at every step of the call
\* that appends an edge, and is erased in one step after the last edge of the
\* call, before any other call starts: a partially drained list is never to
\* be seen, a still populated one is, at every edge of the call.
C18_PendingErasedAfterEdges == [][C18_Step]_vars

\* A ClosePendingEventsOnTrack in progress on a track with two queued flow
\* ids: the first edge is in the table, both entries are still in the list.
C18_Witness ==
  /\ calls = 3
  /\ last.op = "ClosePendingEventsOnTrack" /\ last.res = "emitting"
  /\ last.ret = 1
  /\ Len(pending_flow_ids_map_[last.track]) = 2
  /\ Len(flow_table) = 1
  /\ flow_table[1].slice_in = last.slice

(* --------------------------------- C19 --------------------------------- *)
\* What C19 asks of one step.
C19_Step ==
  LET c == last' IN
  /\ (IsCall("Begin") /\ c.slice = NoSlice
        /\ MapHas(flow_to_slice_map_, c.flow))
       => Counted("flow_no_enclosing_slice")
  /\ ((IsCall("Step") \/ (IsCall("End") /\ c.bind)) /\ c.slice = NoSlice
        /\ ~MapHas(flow_to_slice_map_, c.flow))
       => Counted("flow_no_enclosing_slice")

\* C19: the open-slice check comes before the flow-state check: a Begin of an
\* active flow, a Step of an inactive flow and a binding End of an inactive
\* flow, on a track with no open slice, increment flow_no_enclosing_slice only;
\* flow_duplicate_id, flow_step_without_start and flow_end_without_start stay
\* as they were.
C19_SliceCheckFirst == [][C19_Step]_vars

\* A flow began; then a call on a track with no open slice whose flow-state
\* precondition failed as well; then a Step of an inactive flow on a track
\* with no open slice: flow_no_enclosing_slice is two, the others zero.
C19_Witness ==
  /\ calls = 3
  /\ last.op = "Step" /\ last.res = "no_slice"
  /\ ~MapHas(flow_to_slice_map_, last.flow)
  /\ flow_to_slice_map_ # EmptyMap
  /\ stats = [k \in StatKeys |->
                IF k = "flow_no_enclosing_slice" THEN 2 ELSE 0]

(* --------------------------------- C20 --------------------------------- *)
\* What C20 asks of one step.
C20_Step ==
  LET c == last' IN
  IsCall("ClosePendingEventsOnTrack")
    => /\ \A t \in Tracks \ {c.track} :
            /\ MapHas(pending_flow_ids_map_', t)
                 <=> MapHas(pending_flow_ids_map_, t)
            /\ MapHas(pending_flow_ids_map_, t)
                 => pending_flow_ids_map_'[t] = pending_flow_ids_map_[t]
       /\ stats' = stats
       /\ UNCHANGED <<v1_flow_id_to_flow_id_map_, flow_id_to_v1_flow_id_map_,
                      v1_id_counter_>>
       /\ ~MapHas(pending_flow_ids_map_, c.track)
            => /\ UNCHANGED <<flow_to_slice_map_, pending_flow_ids_map_>>
               /\ flow_table' = flow_table

\* C20: ClosePendingEventsOnTrack(T, S) leaves the pending lists of all tracks
\* other than T, the four counters and the legacy maps as they were; and when
\* T has no pending list it changes nothing in the tracker or the storage and
\* appends no edge.
C20_ClosePendingFrame == [][C20_Step]_vars

\* Deferred Ends were queued on two tracks and one of the tracks was
\* resolved: its edge is in the table and the other track's list is still
\* there.
C20_Witness ==
  /\ calls = 3
  /\ last.op = "ClosePendingEventsOnTrack" /\ last.res = "ok"
  /\ Len(flow_table) = 1
  /\ ~MapHas(pending_flow_ids_map_, last.track)
  /\ \E t \in Tracks \ {last.track} :
       /\ MapHas(pending_flow_ids_map_, t)
       /\ Len(pending_flow_ids_map_[t]) = 1

====
